---------------------------- MODULE Spec2Model ----------------------------
(***************************************************************************)
(* A model of meadow's two data agents:                                    *)
(*   - the schema renamer's commit function parse_rename_and_update_db     *)
(*     (src/meadow/agent/data_agents/schema_renamer.py), run turn after    *)
(*     turn against one Database;                                          *)
(*   - the SQL generator's view registration in                            *)
(*     SQLGeneratorAgent.generate_reply                                    *)
(*     (src/meadow/agent/data_agents/text2sql.py).                         *)
(*   - the send and receive of both agents in a conversation with a        *)
(*     partner, and the validate-and-retry protocol around the commit      *)
(*     function.                                                           *)
(* The Database class (meadow.database.database) is not among the source   *)
(* files; the operations the agents call on it are modelled from           *)
(* spec.md section 4.1 and are marked as such where they are defined.      *)
(***************************************************************************)
EXTENDS Integers, Sequences, FiniteSets, TLC

VARIABLES
    remap,      \* Database: table -> (canonical column -> display name)
    content,    \* messages[-1].content of the last rename turn
    result,     \* how the last rename turn ended (the AgentMessage or the raise)
    preRemap,   \* history: remap as it was when the last rename turn began
    resubmit,   \* history: the last turn resubmitted the content of an FK-only rejection
    views,      \* Database: the registered views, [name, view_sql], in registration order
    reply,      \* what the last SQLGeneratorAgent.generate_reply returned (or raised)
    regLog,     \* history: what the last generate_reply did with each tag it processed
    body,       \* a fragment body handed to replace_tag_with_table
    rewritten,  \* what replace_tag_with_table returned for it
    hist,       \* MessageHistory of each agent for its partner: the entries in order
    call,       \* the receive call in flight, or how the conversation ended
    wire,       \* history: the messages in the order they were handed to a receive
    lastRun,    \* history: the model output and engine outcome of the last SQL reply
    budget,     \* the retries the caller of the commit function has left
    phase       \* state of the validate-and-retry protocol

renameVars == <<remap, content, result, preRemap, resubmit>>

sqlVars == <<views, reply, regLog>>

rewriteVars == <<body, rewritten>>

chatVars == <<hist, call, wire, lastRun>>

retryVars == <<budget, phase>>

vars == <<renameVars, sqlVars, rewriteVars, chatVars, retryVars>>

---------------------------------------------------------------------------
(* The schema of spec.md's end-to-end scenario A:                          *)
(*   orders(oid, cust_id), customers(id, name),                            *)
(*   FK orders.cust_id -> customers.id                                     *)

TableNames == {"orders", "customers"}

Columns(t) == IF t = "orders" THEN {"oid", "cust_id"} ELSE {"id", "name"}

ForeignKeys == { <<<<"orders", "cust_id">>, <<"customers", "id">>>> }

\* A table name a payload may use that the store does not hold.
UnknownTable == "ghost"

\* dict iteration order of a decoded payload (json.loads keeps the order of
\* the text); payloads here list their tables in this order.
TableOrder == <<"orders", "customers", "ghost">>

\* Display names a payload may ask for (besides a column's own name).
Targets == {"cust_id", "name"}

---------------------------------------------------------------------------
(* Database, modelled from spec.md 4.1                                     *)

\* No remap: every column is displayed under its canonical name.
NoRemap == [t \in TableNames |-> [c \in Columns(t) |-> c]]

\* applyColumnRemap(table, mapping): fails if the table is unknown, else
\* records the display name of every column the mapping names.
add_base_table_column_remap(db, table_name, column_mapping) ==
    IF table_name \notin TableNames
    THEN [ok |-> FALSE, db |-> db]
    ELSE [ok |-> TRUE,
          db |-> [db EXCEPT ![table_name] =
                    [c \in Columns(table_name) |->
                        IF c \in DOMAIN column_mapping
                        THEN column_mapping[c] ELSE @[c]]]]

\* discardPendingRemaps(): reverts the remaps applied since the last commit.
\* parse_rename_and_update_db never tells the Database that a turn committed
\* (lines 103-107 return without a call on it), so for the Database every
\* remap it holds is still pending and all of them are removed.
remove_base_table_remaps(db) == NoRemap

\* checkForeignKeyConsistency(): the FK edges whose two ends differ in
\* display name.
get_non_matching_fks(db) ==
    { fk \in ForeignKeys : db[fk[1][1]][fk[1][2]] # db[fk[2][1]][fk[2][2]] }

---------------------------------------------------------------------------
(* Message contents                                                        *)

ColMaps(t) ==
    IF t \in TableNames
    THEN UNION { { m \in [K -> Targets \cup K] : \A k \in K : m[k] \in Targets \cup {k} }
                 : K \in SUBSET Columns(t) }
    ELSE { [id |-> "id"], [id |-> "name"] }

AllColMaps == UNION { ColMaps(t) : t \in TableNames \cup {UnknownTable} }

\* A JSON value under a table key: a column mapping, or not an object.
Scalar == [obj |-> FALSE, map |-> <<>>]

Mapping(m) == [obj |-> TRUE, map |-> m]

\* JSON objects of objects: table -> column mapping.
RemapObjects ==
    UNION { { f \in [K -> {Mapping(m) : m \in AllColMaps}] :
                \A t \in K : f[t].map \in ColMaps(t) }
            : K \in SUBSET (TableNames \cup {UnknownTable}) }

\* JSON objects with a value that is not an object, e.g. {"orders": 1}.
ScalarObjects ==
    { [orders |-> Scalar],
      [orders |-> Mapping([oid |-> "name"]), customers |-> Scalar] }

\* What json.loads makes of the text: a JSONDecodeError, a value that is
\* not an object (a list), or an object.
Invalid == [kind |-> "invalid", obj |-> <<>>]

Array == [kind |-> "array", obj |-> <<>>]

Object(f) == [kind |-> "object", obj |-> f]

\* The object's tables that are fenced as well as bare: a sample.
FencedObjects ==
    { f \in RemapObjects : DOMAIN f = {"customers"} /\ DOMAIN f["customers"].map = {"id"} }

\* fence: "none" (no ```json marker), "block" (a complete ```json block),
\* "marker_only" (the marker with no complete block after it).
Contents ==
    { [fence |-> "none", json |-> Object(f)] : f \in RemapObjects \cup ScalarObjects }
    \cup { [fence |-> "block", json |-> Object(f)] : f \in FencedObjects }
    \cup { [fence |-> fc, json |-> j] : fc \in {"none", "block"}, j \in {Invalid, Array} }
    \cup { [fence |-> "marker_only", json |-> Invalid] }

---------------------------------------------------------------------------
(* parse_rename_and_update_db                                              *)

NoError == [kind |-> "none", table |-> "", value |-> ""]

Err(k, t, v) == [kind |-> k, table |-> t, value |-> v]

\* Lines 53-60. re.findall(...)[-1] on no complete block raises IndexError,
\* which the except clause (JSONDecodeError) does not catch. After a
\* JSONDecodeError error_message is set and content is still the text.
Decode(c) ==
    IF c.fence = "marker_only"
    THEN [raised |-> "IndexError", error |-> NoError, value |-> Invalid]
    ELSE IF c.json.kind = "invalid"
    THEN [raised |-> "none", error |-> Err("json", "", ""), value |-> Invalid]
    ELSE [raised |-> "none", error |-> NoError, value |-> c.json]

\* Lines 66-73: the first value met twice. A table here has two columns, so
\* a mapping holds at most one such value.
DuplicateValue(col_map) ==
    CHOOSE v \in {col_map[k] : k \in DOMAIN col_map} :
        \E k1, k2 \in DOMAIN col_map : k1 # k2 /\ col_map[k1] = v /\ col_map[k2] = v

\* A check of line 64 that finds no duplicate.
NeverDuplicate(col_map) == FALSE

HasDuplicate(col_map) ==
    Cardinality({col_map[k] : k \in DOMAIN col_map}) # Cardinality(DOMAIN col_map)

\* Lines 62-73, from the i-th table on: col_map.values() raises on a value
\* that is not an object; a later table's duplicate overwrites error_message.
RECURSIVE DupScan(_, _, _)
DupScan(obj, i, error) ==
    IF i > Len(TableOrder) THEN [raised |-> "none", error |-> error]
    ELSE LET tbl == TableOrder[i] IN
         IF tbl \notin DOMAIN obj THEN DupScan(obj, i + 1, error)
         ELSE IF ~obj[tbl].obj THEN [raised |-> "AttributeError", error |-> error]
         ELSE IF HasDuplicate(obj[tbl].map)
         THEN DupScan(obj, i + 1, Err("duplicate", tbl, DuplicateValue(obj[tbl].map)))
         ELSE DupScan(obj, i + 1, error)

\* Line 77: a table whose mapping holds only self-mappings is skipped.
NeedsRemap(column_mapping) ==
    \E k \in DOMAIN column_mapping : k # column_mapping[k]

\* Lines 76-82, from the i-th table on: stops at the first failing table.
RECURSIVE ApplyRemaps(_, _, _)
ApplyRemaps(db, obj, i) ==
    IF i > Len(TableOrder) THEN [db |-> db, error |-> NoError]
    ELSE LET table_name == TableOrder[i] IN
         IF table_name \notin DOMAIN obj \/ ~NeedsRemap(obj[table_name].map)
         THEN ApplyRemaps(db, obj, i + 1)
         ELSE LET r == add_base_table_column_remap(db, table_name, obj[table_name].map) IN
              IF r.ok THEN ApplyRemaps(r.db, obj, i + 1)
              ELSE [db |-> r.db, error |-> Err("apply", table_name, "")]

\* Lines 75-82.
ApplyIfNoError(db, obj, error) ==
    IF error = NoError THEN ApplyRemaps(db, obj, 1) ELSE [db |-> db, error |-> error]

\* FkCheck without the check of lines 86-92.
FkCheckSkipped(db, error) == error

\* Lines 84-92.
FkCheck(db, error) ==
    IF error = NoError /\ get_non_matching_fks(db) # {}
    THEN Err("fk", "", "") ELSE error

\* The AgentMessage returned, or the exception that left the function.
Rejection(error) ==
    [outcome |-> "Rejected", requires_response |-> TRUE, error |-> error,
     exception |-> "none"]

Confirmation ==
    [outcome |-> "Committed", requires_response |-> FALSE, error |-> NoError,
     exception |-> "none"]

Raised(e) ==
    [outcome |-> "Raised", requires_response |-> FALSE, error |-> NoError,
     exception |-> e]

NoTurn ==
    [outcome |-> "None", requires_response |-> FALSE, error |-> NoError,
     exception |-> "none"]

\* Reply without the call of line 95.
ReplyKeepingRemaps(db, error) ==
    IF error # NoError
    THEN [db |-> db, msg |-> Rejection(error)]
    ELSE [db |-> db, msg |-> Confirmation]

\* Lines 94-107.
Reply(db, error) ==
    IF error # NoError
    THEN [db |-> remove_base_table_remaps(db), msg |-> Rejection(error)]
    ELSE [db |-> db, msg |-> Confirmation]

\* Lines 44-107. can_reask_again and the earlier messages are never read.
parse_rename_and_update_db(db, c) ==
    LET d == Decode(c) IN
    IF d.raised # "none" THEN [db |-> db, msg |-> Raised(d.raised)]
    ELSE IF d.value.kind # "object"
    THEN [db |-> db, msg |-> Raised("AttributeError")]  \* line 62: content.items()
    ELSE LET scan == DupScan(d.value.obj, 1, d.error) IN
         IF scan.raised # "none" THEN [db |-> db, msg |-> Raised(scan.raised)]
         ELSE LET applied == ApplyIfNoError(db, d.value.obj, scan.error) IN
              Reply(applied.db, FkCheck(applied.db, applied.error))

---------------------------------------------------------------------------
(* SQL text as a sequence of tokens. A tag token is the text <sqlN>, N a   *)
(* sequence of decimal digits; "(" and ")" are tokens of their own and     *)
(* tokens follow each other with nothing in between.                       *)

W(s) == [k |-> "w", s |-> s, n |-> <<>>]          \* literal text s

Open(n) == [k |-> "open", s |-> "", n |-> n]      \* <sqlN>

Close(n) == [k |-> "close", s |-> "", n |-> n]    \* </sqlN>

View(n) == [k |-> "view", s |-> "", n |-> n]      \* sqlN

Lt(n) == [k |-> "lt", s |-> "", n |-> n]          \* <sqlN

Gt(n) == [k |-> "gt", s |-> "", n |-> n]          \* sqlN>

Col(s) == [k |-> "col", s |-> s, n |-> <<>>]      \* a column of customers, by display name

LP == W("(")

RP == W(")")

SelectFrom == W("SELECT * FROM ")

\* Line 47: re.findall(r"\({0,1}<sql\d+>\){0,1}", sql) from position i on:
\* the matches, left to right, without overlap.
RECURSIVE FindTags(_, _)
FindTags(sql, i) ==
    IF i > Len(sql) THEN <<>>
    ELSE LET lp == sql[i] = LP /\ i + 1 <= Len(sql) /\ sql[i + 1].k = "open"
             j  == IF lp THEN i + 1 ELSE i
         IN  IF sql[j].k # "open" THEN FindTags(sql, i + 1)
             ELSE LET e == IF j + 1 <= Len(sql) /\ sql[j + 1] = RP THEN j + 1 ELSE j
                  IN  <<SubSeq(sql, i, e)>> \o FindTags(sql, e + 1)

\* tag[1:-1] of a match: the text without its first and last character.
Inner(tag) ==
    IF Len(tag) = 1 THEN <<View(tag[1].n)>>       \* "<sqlN>"   -> "sqlN"
    ELSE IF Len(tag) = 3 THEN <<tag[2]>>          \* "(<sqlN>)" -> "<sqlN>"
    ELSE IF tag[1] = LP THEN <<Lt(tag[2].n)>>     \* "(<sqlN>"  -> "<sqlN"
    ELSE <<Gt(tag[1].n)>>                         \* "<sqlN>)"  -> "sqlN>"

\* str.replace(pat, rep): every occurrence, left to right, without overlap.
RECURSIVE StrReplace(_, _, _)
StrReplace(sql, pat, rep) ==
    IF Len(sql) < Len(pat) THEN sql
    ELSE IF SubSeq(sql, 1, Len(pat)) = pat
    THEN rep \o StrReplace(SubSeq(sql, Len(pat) + 1, Len(sql)), pat, rep)
    ELSE <<sql[1]>> \o StrReplace(Tail(sql), pat, rep)

\* Lines 48-49, from the i-th match on.
RECURSIVE ReplaceEach(_, _, _)
ReplaceEach(sql, sql_tags, i) ==
    IF i > Len(sql_tags) THEN sql
    ELSE ReplaceEach(
            StrReplace(sql, sql_tags[i], <<LP, SelectFrom>> \o Inner(sql_tags[i]) \o <<RP>>),
            sql_tags, i + 1)

\* Lines 41-50.
replace_tag_with_table(sql) == ReplaceEach(sql, FindTags(sql, 1), 1)

---------------------------------------------------------------------------
(* parse_sqls                                                              *)

Tbl(s) == [k |-> "tbl", s |-> s, n |-> <<>>]      \* a table name

SP == W(" ")

\* The first position >= i of a token of kind k, or 0.
RECURSIVE FirstAt(_, _, _)
FirstAt(text, i, k) ==
    IF i > Len(text) THEN 0
    ELSE IF text[i].k = k THEN i ELSE FirstAt(text, i + 1, k)

RECURSIVE RemoveToken(_, _)
RemoveToken(sql, t) ==
    IF sql = <<>> THEN <<>>
    ELSE IF sql[1] = t THEN RemoveToken(Tail(sql), t)
    ELSE <<sql[1]>> \o RemoveToken(Tail(sql), t)

RECURSIVE Strip(_)
Strip(sql) ==
    IF sql = <<>> THEN <<>>
    ELSE IF sql[1] = SP THEN Strip(Tail(sql))
    ELSE IF sql[Len(sql)] = SP THEN Strip(SubSeq(sql, 1, Len(sql) - 1))
    ELSE sql

\* Line 57: re.findall(r"(<sql\d+>(.*?)<\/sql\d+>)", message, re.DOTALL)
\* from position i on: an opening tag, the shortest text up to a closing
\* tag of any number; the search goes on after the closing tag.
RECURSIVE SqlComponents(_, _)
SqlComponents(message, i) ==
    LET o == FirstAt(message, i, "open")
        c == IF o = 0 THEN 0 ELSE FirstAt(message, o + 1, "close")
    IN  IF c = 0 THEN <<>>
        ELSE <<[tag |-> message[o].n, sql |-> SubSeq(message, o + 1, c - 1)]>>
             \o SqlComponents(message, c + 1)

\* sql_dict[key] = value: a key keeps the place of its first insertion.
DictPut(d, key, value) ==
    IF \E i \in 1..Len(d) : d[i].tag = key
    THEN [i \in 1..Len(d) |-> IF d[i].tag = key THEN [tag |-> key, sql |-> value] ELSE d[i]]
    ELSE Append(d, [tag |-> key, sql |-> value])

\* Lines 60-67, from the i-th component on.
RECURSIVE SqlDict(_, _, _)
SqlDict(sql_components, i, d) ==
    IF i > Len(sql_components) THEN d
    ELSE SqlDict(sql_components, i + 1,
                 DictPut(d, sql_components[i].tag,
                         Strip(RemoveToken(sql_components[i].sql, W(";")))))

\* Lines 53-67.
parse_sqls(message) ==
    LET sql_components == SqlComponents(message, 1) IN
    IF sql_components = <<>> THEN [raised |-> TRUE, dict |-> <<>>]
    ELSE [raised |-> FALSE, dict |-> SqlDict(sql_components, 1, <<>>)]

---------------------------------------------------------------------------
(* Database views, modelled from spec.md 4.1 and 4.2                       *)

Names(vs) == { vs[i].name : i \in 1..Len(vs) }

\* resolve(tag): the view registered under the name, if any.
get_table(vs, k) ==
    IF k \in Names(vs)
    THEN [found |-> TRUE, view_sql |-> vs[CHOOSE i \in 1..Len(vs) : vs[i].name = k].sql]
    ELSE [found |-> FALSE, view_sql |-> <<>>]

\* The canonical columns of customers displayed under the name d.
CanonicalOf(db, d) == { c \in Columns("customers") : db["customers"][c] = d }

\* Step 4 of 4.2: column references rewritten from display name to
\* canonical name; fails on a name that is no column.
normalize_query(db, sql) ==
    IF \E i \in 1..Len(sql) : sql[i].k = "col" /\ CanonicalOf(db, sql[i].s) = {}
    THEN [ok |-> FALSE, sql |-> sql]
    ELSE [ok |-> TRUE,
          sql |-> [i \in 1..Len(sql) |->
                     IF sql[i].k = "col"
                     THEN Col(CHOOSE c \in CanonicalOf(db, sql[i].s) : TRUE)
                     ELSE sql[i]]]

\* A token that names a relation the store knows, or names none.
KnownReference(vs, t) ==
    CASE t.k = "tbl"  -> t.s \in TableNames
      [] t.k = "view" -> t.n \in Names(vs)
      [] t.k \in {"open", "close", "lt", "gt"} -> FALSE
      [] OTHER -> TRUE

\* add_view without the check of the references.
add_view_unchecked(vs, name, sql) ==
    IF name \in Names(vs)
    THEN [ok |-> vs[CHOOSE i \in 1..Len(vs) : vs[i].name = name].sql = sql, views |-> vs]
    ELSE [ok |-> TRUE, views |-> Append(vs, [name |-> name, sql |-> sql])]

\* registerView(tag, normalizedSql): fails on a reference to an unknown
\* table or view and on a tag registered with different SQL; a tag
\* registered with the same SQL is left as it is.
add_view(vs, name, sql) ==
    IF \E i \in 1..Len(sql) : ~KnownReference(vs, sql[i])
    THEN [ok |-> FALSE, views |-> vs]
    ELSE IF name \in Names(vs)
    THEN [ok |-> get_table(vs, name).view_sql = sql, views |-> vs]
    ELSE [ok |-> TRUE, views |-> Append(vs, [name |-> name, sql |-> sql])]

---------------------------------------------------------------------------
(* SQLGeneratorAgent.generate_reply                                        *)

\* int(x[3:]): the decimal value of the digits.
RECURSIVE ToInt(_)
ToInt(digits) ==
    IF digits = <<>> THEN 0
    ELSE 10 * ToInt(SubSeq(digits, 1, Len(digits) - 1)) + digits[Len(digits)]

\* The keys compared as strings: "sql" and then the digits, character by
\* character, a proper prefix being the smaller.
RECURSIVE LexGreater(_, _)
LexGreater(a, b) ==
    IF a = <<>> THEN FALSE
    ELSE IF b = <<>> THEN TRUE
    ELSE IF a[1] # b[1] THEN a[1] > b[1]
    ELSE LexGreater(Tail(a), Tail(b))

\* Line 184: the order max() compares the keys in.
KeyGreater(a, b) == ToInt(a) > ToInt(b)

\* max(sql_dict.keys(), key=...): the first of the largest keys.
RECURSIVE MaxKey(_, _, _)
MaxKey(d, i, best) ==
    IF i > Len(d) THEN best
    ELSE MaxKey(d, i + 1, IF KeyGreater(d[i].tag, best) THEN d[i].tag ELSE best)

\* Passing over a registered tag only when its SQL is the fragment's.
IsRegisteredWithSameSql(vs, k, v) ==
    get_table(vs, k).found /\ get_table(vs, k).view_sql = v

\* Lines 186-189: a tag that is registered is passed over, whatever its
\* SQL (a different SQL is only printed).
IsRegistered(vs, k, v) == get_table(vs, k).found

\* Storing the fragment's text under the registered tag.
OnRegisteredOverwrite(vs, k, v) ==
    [i \in 1..Len(vs) |-> IF vs[i].name = k THEN [name |-> k, sql |-> v] ELSE vs[i]]

\* Lines 187-189: the registered view is left as it is.
OnRegistered(vs, k, v) == vs

\* What the fragment's SQL would be registered as.
Registrable(db, v) == normalize_query(db, replace_tag_with_table(v))

\* The log entry of a tag: what was done, whether the tag was registered
\* when the reply began, and whether it was registered with the SQL the
\* fragment rewrites and normalizes to.
LogEntry(db, vs0, k, v, action) ==
    LET nq == Registrable(db, v) IN
    [action |-> action,
     was_registered |-> k \in Names(vs0),
     same |-> k \in Names(vs0) /\ nq.ok /\ get_table(vs0, k).view_sql = nq.sql]

\* Lines 185-193, from the i-th item on. An exception of normalize_query or
\* add_view leaves generate_reply at once.
RECURSIVE RegisterAll(_, _, _, _, _, _)
RegisterAll(db, vs0, vs, d, i, log) ==
    IF i > Len(d) THEN [raised |-> FALSE, views |-> vs, log |-> log]
    ELSE LET k == d[i].tag
             v == d[i].sql
         IN  IF IsRegistered(vs, k, v)
             THEN RegisterAll(db, vs0, OnRegistered(vs, k, v), d, i + 1,
                              log @@ (k :> LogEntry(db, vs0, k, v, "skipped")))
             ELSE LET nq == Registrable(db, v)
                      av == add_view(vs, k, nq.sql)
                  IN  IF nq.ok /\ av.ok
                      THEN RegisterAll(db, vs0, av.views, d, i + 1,
                                       log @@ (k :> LogEntry(db, vs0, k, v, "registered")))
                      ELSE [raised |-> TRUE, views |-> vs,
                            log |-> log @@ (k :> LogEntry(db, vs0, k, v, "failed"))]

\* prettify_sql: sqlglot's formatting of the text, kept apart from the text.
prettify_sql(sql) == [pretty |-> sql]

NoReply ==
    [outcome |-> "None", current |-> <<>>, display |-> prettify_sql(<<>>),
     table |-> FALSE]

\* Lines 173-180.
TerminationReply ==
    [outcome |-> "Terminated", current |-> <<>>, display |-> prettify_sql(<<>>),
     table |-> FALSE]

RaisedReply ==
    [outcome |-> "Raised", current |-> <<>>, display |-> prettify_sql(<<>>),
     table |-> FALSE]

\* The text of a model output: its fragments, each between its tags.
RECURSIVE Flatten(_)
Flatten(frags) ==
    IF frags = <<>> THEN <<>>
    ELSE <<Open(frags[1].tag)>> \o frags[1].body \o <<Close(frags[1].tag), SP>>
         \o Flatten(Tail(frags))

\* The termination token is in the text of the output.
has_termination_condition(output) == output.exit

\* A termination branch that goes on to register the output's fragments.
TerminationAfterRegistering(db, vs, output) ==
    LET parsed == parse_sqls(Flatten(output.frags)) IN
    IF parsed.raised
    THEN [views |-> vs, log |-> <<>>, reply |-> TerminationReply]
    ELSE [views |-> RegisterAll(db, vs, vs, parsed.dict, 1, <<>>).views,
          log |-> <<>>, reply |-> TerminationReply]

\* Lines 174-180: the reply is returned at once.
OnTermination(db, vs, output) ==
    [views |-> vs, log |-> <<>>, reply |-> TerminationReply]

\* A preview whose engine failure leaves generate_reply as an exception.
PreviewRaising(engine_ok) == [raised |-> ~engine_ok, table |-> engine_ok]

\* Lines 196-203: an exception of run_sql_to_df is logged and the table is
\* left out of the display content.
Preview(engine_ok) == [raised |-> FALSE, table |-> engine_ok]

\* Lines 152-210. engine_ok: whether run_sql_to_df succeeds.
generate_reply(db, vs, output, engine_ok) ==
    IF has_termination_condition(output)
    THEN OnTermination(db, vs, output)
    ELSE LET parsed == parse_sqls(Flatten(output.frags)) IN
         IF parsed.raised
         THEN [views |-> vs, log |-> <<>>, reply |-> RaisedReply]
         ELSE LET sql_dict  == parsed.dict
                  largest_k == MaxKey(sql_dict, 2, sql_dict[1].tag)
                  reg       == RegisterAll(db, vs, vs, sql_dict, 1, <<>>)
              IN  IF reg.raised \/ Preview(engine_ok).raised
                  THEN [views |-> reg.views, log |-> reg.log, reply |-> RaisedReply]
                  ELSE [views |-> reg.views, log |-> reg.log,
                        reply |-> [outcome |-> "Reply", current |-> largest_k,
                                   display |-> prettify_sql(get_table(reg.views, largest_k).view_sql),
                                   table |-> Preview(engine_ok).table]]

---------------------------------------------------------------------------
(* Model outputs                                                           *)

MaxFragments == 2

Tags == { <<1>>, <<2>>, <<1, 0>> }

CountFrom == W("SELECT count(*) FROM ")

\* The bodies a fragment may have: a query over a base table ending in a
\* statement terminator, a query over a column under its display name, a
\* bare reference to the tag sql1.
FragBodies ==
    { <<SelectFrom, Tbl("orders"), W(";")>>,
      <<W("SELECT "), Col("cust_id"), W(" FROM "), Tbl("customers")>>,
      <<SelectFrom, Open(<<1>>)>> }

Fragments == [tag : Tags, body : FragBodies]

\* Up to MaxFragments fragments; a tag is unique within a message (the wire
\* format of spec.md section 6).
FragSeqs ==
    UNION { { f \in [1..n -> Fragments] : \A i, j \in 1..n : i # j => f[i].tag # f[j].tag }
            : n \in 0..MaxFragments }

\* exit: the output holds the termination token.
Outputs ==
    { [exit |-> FALSE, frags |-> f] : f \in FragSeqs }
    \cup { [exit |-> TRUE, frags |-> f] : f \in { g \in FragSeqs : Len(g) <= 1 } }

\* What run_sql_to_df does with the current result: here it succeeds.
EngineOutcomes == {TRUE}

\* The display names of scenario A after its remap has been committed.
ScenarioARemap == [NoRemap EXCEPT !["customers"]["id"] = "cust_id"]

---------------------------------------------------------------------------
(* Specifications                                                          *)

RenameIdle ==
    /\ remap = NoRemap
    /\ content = [fence |-> "none", json |-> Invalid]
    /\ result = NoTurn
    /\ preRemap = NoRemap
    /\ resubmit = FALSE

SqlIdle ==
    /\ views = <<>>
    /\ reply = NoReply
    /\ regLog = <<>>

NotRewritten == [done |-> FALSE, sql |-> <<>>]

RewriteIdle ==
    /\ body = <<>>
    /\ rewritten = NotRewritten

\* No conversation: empty histories, no call in flight.
Agents == {"User", "SQLGenerator", "SchemaRenamer"}

\* An AgentMessage: who made it, its content (text, and for a SQL reply the
\* fragments and termination token of the model output), the termination
\* flag and whether its display content holds a preview table. id numbers
\* the messages of a conversation in the order they were made.
NoMsg ==
    [id |-> 0, from |-> "", text |-> "", frags |-> <<>>, exit |-> FALSE,
     term |-> FALSE, table |-> FALSE]

\* None in the place of a message.
Null == [NoMsg EXCEPT !.text = "None"]

NoCall == [op |-> "idle", how |-> "", to |-> "", from |-> "", msg |-> NoMsg]

NoRun == [output |-> [exit |-> FALSE, frags |-> <<>>], engine_ok |-> TRUE]

ChatIdle ==
    /\ hist = [a \in Agents |-> <<>>]
    /\ call = NoCall
    /\ wire = <<>>
    /\ lastRun = NoRun

\* No proposal handed to the validate-and-retry protocol.
RetryIdle ==
    /\ budget = 0
    /\ phase = "Idle"

RenameInit ==
    /\ RenameIdle
    /\ SqlIdle
    /\ RewriteIdle
    /\ ChatIdle
    /\ RetryIdle

\* The executor runs the commit function on the proposal it was sent.
RenameTurn ==
    /\ \E c \in Contents :
        \E r \in {parse_rename_and_update_db(remap, c)} :
        /\ remap' = r.db
        /\ result' = r.msg
        /\ content' = c
        /\ preRemap' = remap
        /\ resubmit' = (result.outcome = "Rejected" /\ result.error.kind = "fk"
                        /\ c = content)
    /\ UNCHANGED <<sqlVars, rewriteVars, chatVars, retryVars>>

SpecRename == RenameInit /\ [][RenameTurn]_vars

\* The SQL generator answers a message: the model's output is any of Outputs.
GenerateReply ==
    /\ \E output \in Outputs, engine_ok \in EngineOutcomes :
        \E r \in {generate_reply(remap, views, output, engine_ok)} :
        /\ views' = r.views
        /\ reply' = r.reply
        /\ regLog' = r.log
    /\ UNCHANGED <<renameVars, rewriteVars, chatVars, retryVars>>

SqlInit ==
    /\ remap = ScenarioARemap
    /\ content = [fence |-> "none", json |-> Invalid]
    /\ result = NoTurn
    /\ preRemap = remap
    /\ resubmit = FALSE
    /\ SqlIdle
    /\ RewriteIdle
    /\ ChatIdle
    /\ RetryIdle

SpecSql == SqlInit /\ [][GenerateReply]_vars

\* replace_tag_with_table on every text of up to MaxBodyLen tokens with
\* balanced parentheses.
MaxBodyLen == 4

RewriteAlphabet == { LP, RP, Open(<<1>>), Open(<<2>>), SelectFrom, CountFrom }

\* Parentheses closed in the order they were opened.
RECURSIVE Balanced(_, _)
Balanced(sql, depth) ==
    IF sql = <<>> THEN depth = 0
    ELSE IF sql[1] = LP THEN Balanced(Tail(sql), depth + 1)
    ELSE IF sql[1] = RP THEN depth > 0 /\ Balanced(Tail(sql), depth - 1)
    ELSE Balanced(Tail(sql), depth)

RewriteBodies ==
    UNION { { b \in [1..n -> RewriteAlphabet] : Balanced(b, 0) } : n \in 1..MaxBodyLen }

RewriteInit ==
    /\ RenameIdle
    /\ SqlIdle
    /\ body \in RewriteBodies
    /\ rewritten = NotRewritten
    /\ ChatIdle
    /\ RetryIdle

Rewrite ==
    /\ ~rewritten.done
    /\ rewritten' = [done |-> TRUE, sql |-> replace_tag_with_table(body)]
    /\ UNCHANGED <<body, renameVars, sqlVars, chatVars, retryVars>>

SpecRewrite == RewriteInit /\ [][Rewrite]_vars

---------------------------------------------------------------------------
(* The agents' send and receive                                            *)
(* MessageHistory (meadow.history.message_history) and the partner the     *)
(* two agents talk to are not among the source files; they are modelled    *)
(* from spec.md sections 3 and 4.4.                                        *)

MaxMessages == 6

SourceAgents == {"SQLGenerator", "SchemaRenamer"}

\* MessageHistory.add_message: the message is stored by value, with the
\* role it has for the owner of the history, after the entries already there.
add_message(h, owner, agent, role, message) ==
    [h EXCEPT ![owner] = Append(@, [role |-> role, partner |-> agent, msg |-> message])]

\* How a conversation ended: the exception that left the call stack, or
\* the partner not answering.
Ended(how, message) ==
    [op |-> "ended", how |-> how, to |-> "", from |-> "", msg |-> message]

Deliver(self, message, recipient) ==
    [op |-> "receive", how |-> "", to |-> recipient, from |-> self, msg |-> message]

\* send without the test of the message.
send_unchecked(h, self, message, recipient) ==
    [hist |-> add_message(h, self, recipient, "assistant", message),
     call |-> Deliver(self, message, recipient)]

\* SQLGeneratorAgent.send, lines 121-131, and SchemaRenamerAgent.send, lines
\* 189-200: hist and the call of recipient.receive that follows.
send(h, self, message, recipient) ==
    IF message = Null
    THEN [hist |-> h, call |-> Ended("ValueError", message)]
    ELSE [hist |-> add_message(h, self, recipient, "assistant", message),
          call |-> Deliver(self, message, recipient)]

\* A receive that does not append the incoming message.
receive_without_append(h, self, message, sender) == h

\* Line 145 of text2sql.py, line 214 of schema_renamer.py.
receive_append(h, self, message, sender) ==
    add_message(h, self, sender, "user", message)

\* The reply to the message in flight is the next message of the
\* conversation.
NextId == call.msg.id + 1

\* What the model may answer the SQL generator with: a query over a base
\* table, a query over the tag sql1, no fragment at all, the termination
\* token after a fragment, the termination token alone.
ChatOutputs ==
    { [exit |-> FALSE, frags |-> << [tag |-> <<1>>, body |-> <<SelectFrom, Tbl("orders"), W(";")>>] >>],
      [exit |-> FALSE, frags |-> << [tag |-> <<2>>, body |-> <<SelectFrom, Open(<<1>>)>>] >>],
      [exit |-> FALSE, frags |-> <<>>],
      [exit |-> TRUE,  frags |-> << [tag |-> <<1, 0>>, body |-> <<SelectFrom, Tbl("orders")>>] >>],
      [exit |-> TRUE,  frags |-> <<>>] }

\* Lines 204-210 and 174-180: the AgentMessage made from the reply.
SqlMessage(output, r) ==
    [id |-> NextId, from |-> "SQLGenerator", text |-> "sql", frags |-> output.frags,
     exit |-> output.exit, term |-> r.outcome = "Terminated", table |-> r.table]

\* SchemaRenamerAgent.generate_reply, line 227: the content of messages[0]
\* is replaced by the schema as it is now.
RewriteFirst(h, self) ==
    [h EXCEPT ![self][1].msg.text = "My schema is"]

\* What the model may answer the schema renamer with.
RenamerOutputs == {"remap", "prose"}

\* Lines 247-252.
RenamerMessage(text) ==
    [id |-> NextId, from |-> "SchemaRenamer", text |-> text, frags |-> <<>>,
     exit |-> FALSE, term |-> FALSE, table |-> FALSE]

\* The partner's messages.
UserMessage(id) ==
    [id |-> id, from |-> "User", text |-> "question", frags |-> <<>>,
     exit |-> FALSE, term |-> FALSE, table |-> FALSE]

\* The first message an agent of the source sends when it opens the
\* conversation.
Opening(a) ==
    IF a = "User" THEN UserMessage(1)
    ELSE [id |-> 1, from |-> a, text |-> "hello", frags |-> <<>>,
          exit |-> FALSE, term |-> FALSE, table |-> FALSE]

Partners(a) == IF a = "User" THEN SourceAgents ELSE {"User"}

\* A caller opens a conversation with a.send(message, recipient); the
\* message may be None.
Send ==
    /\ call.op = "idle"
    /\ \E a \in Agents, message \in {Null} \cup {Opening(b) : b \in Agents} :
        \E recipient \in Partners(a) :
        \E s \in {send(hist, a, message, recipient)} :
        /\ message \in {Null, Opening(a)}
        /\ hist' = s.hist
        /\ call' = s.call
    /\ UNCHANGED <<wire, lastRun, renameVars, sqlVars, rewriteVars, retryVars>>

\* SQLGeneratorAgent.receive, lines 133-150, with generate_reply and send.
ReceiveSql ==
    /\ call.op = "receive"
    /\ call.to = "SQLGenerator"
    /\ \E output \in ChatOutputs, engine_ok \in BOOLEAN :
        \E r \in {generate_reply(remap, views, output, engine_ok)} :
        \E h \in {receive_append(hist, call.to, call.msg, call.from)} :
        \E s \in {send(h, call.to, SqlMessage(output, r.reply), call.from)} :
        /\ views' = r.views
        /\ reply' = r.reply
        /\ regLog' = r.log
        /\ lastRun' = [output |-> output, engine_ok |-> engine_ok]
        /\ hist' = IF r.reply.outcome = "Raised" THEN h ELSE s.hist
        /\ call' = IF r.reply.outcome = "Raised" THEN Ended("raised", call.msg) ELSE s.call
    /\ wire' = Append(wire, call.msg)
    /\ UNCHANGED <<renameVars, rewriteVars, retryVars>>

\* SchemaRenamerAgent.receive, lines 202-219, with generate_reply and send.
ReceiveRenamer ==
    /\ call.op = "receive"
    /\ call.to = "SchemaRenamer"
    /\ \E text \in RenamerOutputs :
        \E h \in {RewriteFirst(receive_append(hist, call.to, call.msg, call.from), call.to)} :
        \E s \in {send(h, call.to, RenamerMessage(text), call.from)} :
        /\ hist' = s.hist
        /\ call' = s.call
    /\ wire' = Append(wire, call.msg)
    /\ UNCHANGED <<lastRun, renameVars, sqlVars, rewriteVars, retryVars>>

\* The partner's receive: it appends the message and answers it, unless
\* the message is a termination message or the conversation has reached
\* MaxMessages messages.
ReceiveUser ==
    /\ call.op = "receive"
    /\ call.to = "User"
    /\ \E h \in {receive_append(hist, call.to, call.msg, call.from)} :
        \E s \in {send(h, call.to, UserMessage(NextId), call.from)} :
        IF call.msg.term
        THEN hist' = h /\ call' = Ended("terminated", call.msg)
        ELSE IF Len(wire) + 1 >= MaxMessages
        THEN hist' = h /\ call' = Ended("stopped", call.msg)
        ELSE hist' = s.hist /\ call' = s.call
    /\ wire' = Append(wire, call.msg)
    /\ UNCHANGED <<lastRun, renameVars, sqlVars, rewriteVars, retryVars>>

ChatInit ==
    /\ RenameIdle
    /\ SqlIdle
    /\ RewriteIdle
    /\ ChatIdle
    /\ RetryIdle

ChatNext == Send \/ ReceiveSql \/ ReceiveRenamer \/ ReceiveUser

SpecChat == ChatInit /\ [][ChatNext]_vars

---------------------------------------------------------------------------
(* The validate-and-retry protocol around parse_rename_and_update_db       *)
(* The caller that holds the retry budget (meadow.agent.executor.reask) is *)
(* not among the source files; it is modelled from spec.md 4.3.            *)

MaxRetries == 2

\* The proposals the generating agent may make: a mapping for one table, an
\* empty object, a text that is not JSON, a list.
RetryContents ==
    { c \in Contents :
        /\ c.fence = "none"
        /\ c.json.kind = "object" => (/\ Cardinality(DOMAIN c.json.obj) <= 1
                                     /\ \A t \in DOMAIN c.json.obj : c.json.obj[t].obj) }

\* State Proposed: the generating agent has produced a text, the first one
\* or, while the caller has retries left, one in answer to a rejection.
Propose ==
    /\ \/ phase = "Idle" /\ budget' = budget
       \/ phase = "Rejected" /\ budget > 0 /\ budget' = budget - 1
    /\ content' \in RetryContents
    /\ phase' = "Proposed"
    /\ UNCHANGED <<remap, result, preRemap, resubmit, sqlVars, rewriteVars, chatVars>>

\* spec.md 4.3: where the protocol goes on the message the commit function
\* returned, or on its exception.
AfterValidation(msg, retries) ==
    CASE msg.outcome = "Committed" -> "Committed"
      [] msg.outcome = "Rejected"  -> IF retries > 0 THEN "Rejected" ELSE "Exhausted"
      [] OTHER                     -> "Aborted"

\* State Validating: the caller runs the commit function on the proposal.
Validate ==
    /\ phase = "Proposed"
    /\ \E r \in {parse_rename_and_update_db(remap, content)} :
        /\ remap' = r.db
        /\ result' = r.msg
        /\ phase' = AfterValidation(r.msg, budget)
    /\ preRemap' = remap
    /\ UNCHANGED <<content, resubmit, budget, sqlVars, rewriteVars, chatVars>>

RetryInit ==
    /\ RenameIdle
    /\ SqlIdle
    /\ RewriteIdle
    /\ ChatIdle
    /\ budget \in 0..MaxRetries
    /\ phase = "Idle"

RetryNext == Propose \/ Validate

\* The caller and the generating agent take their steps: a proposal is
\* validated, a rejection with retries left is answered.
SpecRetry == RetryInit /\ [][RetryNext]_vars /\ WF_vars(RetryNext)

---------------------------------------------------------------------------
(* Claims about parse_rename_and_update_db, under SpecRename               *)

\* C1: whenever a turn ends Rejected, every column of every base table is
\* displayed under the name it had when the turn began, remaps committed by
\* earlier turns included.
C1_RejectedTurnRestoresNames ==
    result.outcome = "Rejected" => remap = preRemap

Injective(db, t) ==
    \A c1, c2 \in Columns(t) : c1 # c2 => db[t][c1] # db[t][c2]

\* C2: whenever a turn ends Committed, no two columns of a base table share
\* a display name, the columns the mapping does not mention included.
C2_CommittedInjective ==
    result.outcome = "Committed" => \A t \in TableNames : Injective(remap, t)

\* The content does not decode to an object of objects.
Malformed(c) ==
    \/ c.fence = "marker_only"
    \/ c.json.kind # "object"
    \/ \E t \in DOMAIN c.json.obj : ~c.json.obj[t].obj

\* C3: a content that does not decode to a remap object is answered by a
\* correction message with requires_response carrying the parse failure; the
\* function does not raise and the store holds no new remap.
C3_MalformedIsRejected ==
    (result.outcome # "None" /\ Malformed(content)) =>
        /\ result.outcome = "Rejected"
        /\ result.requires_response
        /\ result.error.kind = "json"
        /\ \A t \in TableNames : \A c \in Columns(t) : remap[t][c] \in {preRemap[t][c], c}

\* C4: the identical mapping submitted again right after a rejection for
\* non-matching foreign keys alone is accepted: the turn ends Committed and
\* the message does not request a response.
C4_ResubmissionAccepted ==
    resubmit => (result.outcome = "Committed" /\ ~result.requires_response)

FksMatch(db) ==
    \A fk \in ForeignKeys : db[fk[1][1]][fk[1][2]] = db[fk[2][1]][fk[2][2]]

\* C5: whenever a turn returns the confirmation message, the two ends of
\* every foreign key are displayed under the same name, unless the mapping
\* was an acknowledged resubmission.
C5_CommittedFksMatch ==
    (result.outcome = "Committed" /\ ~result.requires_response) =>
        (FksMatch(remap) \/ resubmit)

\* Scenario A: {"customers": {"id": "cust_id"}} on the fresh store commits.
C5_Witness ==
    /\ result.outcome = "Committed"
    /\ preRemap = NoRemap
    /\ content.json.kind = "object"
    /\ DOMAIN content.json.obj = {"customers"}
    /\ remap = ScenarioARemap

---------------------------------------------------------------------------
(* Claims about replace_tag_with_table, under SpecRewrite                  *)

Subquery(n) == <<LP, SelectFrom, View(n), RP>>

\* Every reference, bare or parenthesized, turned into (SELECT * FROM sqlN).
RECURSIVE RewriteReferences(_)
RewriteReferences(sql) ==
    IF sql = <<>> THEN <<>>
    ELSE IF Len(sql) >= 3 /\ sql[1] = LP /\ sql[2].k = "open" /\ sql[3] = RP
    THEN Subquery(sql[2].n) \o RewriteReferences(SubSeq(sql, 4, Len(sql)))
    ELSE IF sql[1].k = "open"
    THEN Subquery(sql[1].n) \o RewriteReferences(Tail(sql))
    ELSE <<sql[1]>> \o RewriteReferences(Tail(sql))

\* C6: replace_tag_with_table turns every reference <sqlN> or (<sqlN>) into
\* the subquery (SELECT * FROM sqlN), and no <sqlN> token is left.
C6_ReferencesRewritten ==
    rewritten.done =>
        /\ rewritten.sql = RewriteReferences(body)
        /\ \A i \in 1..Len(rewritten.sql) : rewritten.sql[i].k # "open"

---------------------------------------------------------------------------
(* Claims about SQLGeneratorAgent.generate_reply, under SpecSql            *)

\* C7, as stated: a fragment's registration is skipped if and only if its
\* tag is already registered with the SQL the fragment rewrites to.
C7_SkippedIffSameSql ==
    \A t \in DOMAIN regLog : regLog[t].action = "skipped" <=> regLog[t].same

\* C7, amended: a fragment's registration is skipped if and only if its tag
\* is already registered, whatever the SQL; a fragment that is registered
\* is a view of the store afterwards.
C7_SkippedIffRegistered ==
    \A t \in DOMAIN regLog :
        /\ regLog[t].action = "skipped" <=> regLog[t].was_registered
        /\ regLog[t].action = "registered" => t \in Names(views)

\* A tag registered with another SQL is passed over.
C7_Witness ==
    \E t \in DOMAIN regLog : regLog[t].action = "skipped" /\ ~regLog[t].same

\* C8: a message whose fragments all carry tags registered with the same
\* SQL adds no view, removes none and changes no view's SQL.
C8_SameTagsChangeNothing ==
    [][(DOMAIN regLog' # {} /\ \A t \in DOMAIN regLog' : regLog'[t].same)
        => views' = views]_vars

\* A reply to two fragments, both registered before with the same SQL.
C8_Witness ==
    /\ reply.outcome = "Reply"
    /\ Cardinality(DOMAIN regLog) = 2
    /\ \A t \in DOMAIN regLog : regLog[t].same /\ regLog[t].action = "skipped"

\* C9: the SQL shown as the current result is the view registered under the
\* tag of the message with the largest number, the tags compared as integers.
C9_CurrentIsLargestTag ==
    reply.outcome = "Reply" =>
        /\ reply.current \in DOMAIN regLog
        /\ \A t \in DOMAIN regLog : ToInt(t) <= ToInt(reply.current)
        /\ reply.current \in Names(views)
        /\ reply.display = prettify_sql(get_table(views, reply.current).view_sql)

\* A message with sql2 and sql10 reports sql10.
C9_Witness ==
    /\ reply.outcome = "Reply"
    /\ DOMAIN regLog = { <<2>>, <<1, 0>> }
    /\ reply.current = <<1, 0>>

\* C10: every view's SQL references only base tables and views registered
\* before it: no tag is left in it, and no view references itself or a view
\* registered after it.
C10_LineageAcyclic ==
    \A i \in 1..Len(views) : \A j \in 1..Len(views[i].sql) :
        LET t == views[i].sql[j] IN
        /\ t.k \notin {"open", "close", "lt", "gt"}
        /\ t.k = "tbl" => t.s \in TableNames
        /\ t.k = "view" => \E h \in 1..(i - 1) : views[h].name = t.n

\* A view over another view, registered by the last reply.
C10_Witness ==
    /\ \E i \in 1..Len(views) : \E j \in 1..Len(views[i].sql) : views[i].sql[j].k = "view"
    /\ \E t \in DOMAIN regLog : regLog[t].action = "registered"
    /\ reply.outcome = "Reply"

\* C11: when generate_reply fails on a fragment, the store holds the views it
\* held when the message began: no view registered from an earlier fragment
\* of the failing message is left in it.
C11_FailedReplyLeavesNoView ==
    reply.outcome = "Raised" =>
        \A t \in DOMAIN regLog :
            ~(regLog[t].action = "registered" /\ ~regLog[t].was_registered
              /\ t \in Names(views))

\* The tables the payload of the last turn names, and the mapping of each.
PayloadTables ==
    IF content.json.kind = "object" THEN DOMAIN content.json.obj ELSE {}

PayloadMap(t) == content.json.obj[t].map

\* The mapping sends two different columns to the same name.
SendsTwoToOne(m) ==
    \E k1, k2 \in DOMAIN m : k1 # k2 /\ m[k1] = m[k2]

\* Some table's mapping of the last payload sends two columns to one name.
HasDuplicateTarget ==
    \E t \in PayloadTables : content.json.obj[t].obj /\ SendsTwoToOne(PayloadMap(t))

\* Some column is displayed under a new name the last payload gave it.
TurnRemapApplied ==
    \E t \in PayloadTables \cap TableNames : \E c \in DOMAIN PayloadMap(t) :
        PayloadMap(t)[c] # c /\ remap[t][c] = PayloadMap(t)[c]

\* Every table of the last payload that asks for a new name shows the names
\* the payload gave.
TurnRemapsRemain ==
    \A t \in PayloadTables \cap TableNames :
        NeedsRemap(PayloadMap(t)) =>
            \A c \in DOMAIN PayloadMap(t) : remap[t][c] = PayloadMap(t)[c]

C15_UnknownTableRejected ==
    (UnknownTable \in PayloadTables /\ result.outcome # "None") =>
        (result.outcome = "Rejected" /\ result.requires_response)

\* C16: a turn that returns is Rejected, with requires_response, a failure
\* reason and none of the payload's remaps applied, or Committed, without
\* requires_response and with the payload's remaps applied; no message asks
\* for a retry while a remap of the turn is applied.
C16_OutcomeAndFlagAgree ==
    /\ result.requires_response => result.outcome = "Rejected"
    /\ result.outcome = "Rejected" =>
          (result.requires_response /\ result.error # NoError /\ ~TurnRemapApplied)
    /\ result.outcome = "Committed" =>
          (~result.requires_response /\ result.error = NoError /\ TurnRemapsRemain)

\* A turn rejected on the foreign keys after its remaps had been applied.
C16_Witness ==
    /\ result.outcome = "Rejected"
    /\ result.error.kind = "fk"
    /\ \E t \in PayloadTables \cap TableNames : NeedsRemap(PayloadMap(t))

---------------------------------------------------------------------------
(* Claims about send and receive, under SpecChat                           *)

\* The message with the given id as it was handed to receive.
Exchanged(id) == IF id <= Len(wire) THEN wire[id] ELSE call.msg

\* C12: a history only grows by appending: every step leaves the entries a
\* history already holds as they are and where they are, the first one
\* included, and every entry is the message as it was exchanged.
C12_HistoryOnlyAppended ==
    /\ [][\A a \in Agents :
            /\ Len(hist'[a]) >= Len(hist[a])
            /\ SubSeq(hist'[a], 1, Len(hist[a])) = hist[a]]_vars
    /\ [](\A a \in Agents : \A i \in 1..Len(hist[a]) :
            hist[a][i].msg = Exchanged(hist[a][i].msg.id))

C18_EmptyMessageRaisesFirst ==
    /\ [][(call' # call /\ call'.msg = Null)
           => (/\ call'.op = "ended"
               /\ call'.how = "ValueError"
               /\ hist' = hist
               /\ wire' = wire)]_vars
    /\ [](\A a \in Agents : \A i \in 1..Len(hist[a]) : hist[a][i].msg # Null)

C18_Witness ==
    /\ call.op = "ended"
    /\ call.how = "ValueError"
    /\ call.msg = Null
    /\ \A a \in Agents : hist[a] = <<>>

\* C19: an output with no fragment and no termination token makes
\* generate_reply raise: the views are left as they were and the incoming
\* message is the last entry of the history; a failure of the engine on the
\* preview of an output whose fragments all registered still sends the
\* reply, without the preview table, and the views registered stay.
C19_ParseFailsPreviewDoesNot ==
    [][(call.op = "receive" /\ call.to = "SQLGenerator" /\ wire' # wire) =>
        /\ (~lastRun'.output.exit /\ lastRun'.output.frags = <<>>) =>
              /\ call' = Ended("raised", call.msg)
              /\ views' = views
              /\ hist'["SQLGenerator"] =
                    Append(hist["SQLGenerator"],
                           [role |-> "user", partner |-> call.from, msg |-> call.msg])
        /\ (/\ ~lastRun'.output.exit
            /\ lastRun'.output.frags # <<>>
            /\ ~lastRun'.engine_ok
            /\ \A t \in DOMAIN regLog' : regLog'[t].action # "failed") =>
              /\ call'.op = "receive"
              /\ call'.msg.from = "SQLGenerator"
              /\ ~call'.msg.term
              /\ ~call'.msg.table
              /\ \A t \in DOMAIN regLog' :
                    regLog'[t].action = "registered" => t \in Names(views')]_vars

\* A reply sent after the engine failed on the preview of a view registered
\* in the same turn.
C19_Witness ==
    /\ ~lastRun.engine_ok
    /\ reply.outcome = "Reply"
    /\ ~reply.table
    /\ \E t \in DOMAIN regLog : regLog[t].action = "registered"
    /\ call.op = "receive"
    /\ call.from = "SQLGenerator"

---------------------------------------------------------------------------
(* Claims about the validate-and-retry protocol, under SpecRetry           *)

\* C13: every proposal handed to the protocol eventually reaches a terminal
\* state: Committed, or Rejected with the retry budget exhausted.
C13_RetryLoopTerminates ==
    <>(phase \in {"Committed", "Exhausted"})

=============================================================================
